---- MODULE Spec2Model ----
(***************************************************************************)
(* Model of apps/ai/main.py: a FastAPI application, served through Mangum, *)
(* with two handlers.  health() answers GET /health and GET /prod/health;  *)
(* generate() answers POST /generate and POST /prod/generate by one call   *)
(* of bedrock_runtime.invoke_model and the extraction of the text blocks   *)
(* of the provider's reply.                                                *)
(*                                                                         *)
(* One execution instance serves one invocation at a time, to completion.  *)
(* The per-invocation variables (request, invoked, result, exc, stdout,    *)
(* response) describe the invocation in progress, or the last one when pc  *)
(* is "idle"; they are reset when the next invocation starts.  stdout is    *)
(* the part of the process's output stream written by that invocation.     *)
(*                                                                         *)
(* Python values are tagged records, since the handler inspects JSON of    *)
(* any shape: Str(s), JNull, JNumber, List(items), Dict(fields).           *)
(* Library behaviour the handler relies on is modelled as of the current   *)
(* releases: pydantic 2 (a str field takes a JSON string only), Starlette  *)
(* (str() of an HTTPException is "<status_code>: <detail>"), botocore      *)
(* (str() of a ClientError follows its MSG_TEMPLATE).                      *)
(***************************************************************************)
EXTENDS Naturals, Sequences, FiniteSets, TLC

\* The longest "content" list the provider returns in the model.
MaxBlocks == 3
\* The longest "content" list in the specifications that vary the environment
\* or compare two invocations.
MaxBlocksSmall == 1

VARIABLES
    env,              \* os.environ at import time: variable name -> value
    bedrock_region,   \* module global, line 12
    bedrock_model_id, \* module global, lines 13-16
    bedrock_runtime,  \* module global, lines 18-21: the boto3 client
    provider,         \* the provider's condition, outside the program
    pc,               \* position of the instance: idle, call, parse, except, raise
    request,          \* the inbound HTTP request and the GenerateRequest built from it
    invoked,          \* the invoke_model calls made by the invocation, in order
    result,           \* what invoke_model returned to the invocation
    exc,              \* the exception in flight
    stdout,           \* lines print() wrote during the invocation
    response,         \* the HTTP response of the invocation
    seen              \* an earlier finished /generate invocation (history)

vars == <<env, bedrock_region, bedrock_model_id, bedrock_runtime, provider, pc,
          request, invoked, result, exc, stdout, response, seen>>

config == <<env, bedrock_region, bedrock_model_id, bedrock_runtime>>

-----------------------------------------------------------------------------
(* Python and JSON values *)

None == [t |-> "None"]
Str(s) == [t |-> "string", v |-> s]
JNull == [t |-> "null"]
JNumber == [t |-> "number"]
List(items) == [t |-> "array", items |-> items]
Dict(fields) == [t |-> "object", d |-> fields]

\* type(x).__name__ as it appears in Python's error messages
PyTypeName(x) ==
    CASE x.t = "string" -> "str"
      [] x.t = "null" -> "NoneType"
      [] x.t = "number" -> "int"
      [] x.t = "array" -> "list"
      [] x.t = "object" -> "dict"
      [] OTHER -> "NoneType"

\* dict.get(key, default) on a Python dict held as a TLA+ record
Get(d, key, default) == IF key \in DOMAIN d THEN d[key] ELSE default

Ok(value) == [ok |-> TRUE, value |-> value]
Raised(e) == [ok |-> FALSE, exc |-> e]

PyError(type, msg) == [type |-> type, msg |-> msg]

-----------------------------------------------------------------------------
(* Process start: lines 9-21 *)

EnvNames == {"BEDROCK_REGION", "BEDROCK_MODEL_ID", "MODEL_REGION", "MODEL_ID"}
Unset == "<unset>"

\* os.getenv(name, default)
Getenv(e, name, default) == IF e[name] = Unset THEN default ELSE e[name]

DefaultRegion == "us-east-1"
DefaultModelId == "anthropic.claude-3-5-sonnet-20240620-v1:0"

\* Faulty variant: the model identifier is never read from the environment.
ModelIdIgnoringEnv(e) == DefaultModelId

RegionFromEnv(e) == Getenv(e, "BEDROCK_REGION", DefaultRegion)
ModelIdFromEnv(e) == Getenv(e, "BEDROCK_MODEL_ID", DefaultModelId)

\* boto3.client("bedrock-runtime", region_name=...)
Boto3Client(region) == [service |-> "bedrock-runtime", region_name |-> region]

\* The environments the instance may be started in.
Environments ==
    { e \in [EnvNames -> {Unset, "eu-west-1", "anthropic.claude-3-haiku-20240307-v1:0"}] :
        /\ e["BEDROCK_REGION"] \in {Unset, "eu-west-1"}
        /\ e["MODEL_REGION"] \in {Unset, "eu-west-1"}
        /\ e["BEDROCK_MODEL_ID"] \in {Unset, "anthropic.claude-3-haiku-20240307-v1:0"}
        /\ e["MODEL_ID"] \in {Unset, "anthropic.claude-3-haiku-20240307-v1:0"} }

\* The environments of the main specification: nothing set, or the two
\* variables the program reads set.
DeployedEnvironments ==
    { e \in Environments :
        /\ e["MODEL_REGION"] = Unset
        /\ e["MODEL_ID"] = Unset
        /\ (e["BEDROCK_REGION"] = Unset) <=> (e["BEDROCK_MODEL_ID"] = Unset) }

ProviderStates == {"available", "erroring", "timing_out"}

\* The state once the module is imported, lines 9-21.
Start(environments) ==
    /\ env \in environments
    /\ bedrock_region = RegionFromEnv(env)
    /\ bedrock_model_id = ModelIdFromEnv(env)
    /\ bedrock_runtime = Boto3Client(RegionFromEnv(env))
    /\ provider \in ProviderStates
    /\ pc = "idle"
    /\ request = None
    /\ invoked = <<>>
    /\ result = None
    /\ exc = None
    /\ stdout = <<>>
    /\ response = None
    /\ seen = None

Init == Start(DeployedEnvironments)
InitEnv == Start(Environments)
InitPair == Start({ e \in Environments : \A name \in EnvNames : e[name] = Unset })

-----------------------------------------------------------------------------
(* GET /health, GET /prod/health: lines 28-31 *)

HealthRoutes == {"/health", "/prod/health"}

\* Faulty variant: the health answer follows the provider's condition.
HealthBodyProbing == [status |-> IF provider = "available" THEN "ok" ELSE "degraded"]

HealthBody == [status |-> "ok"]

health(route) ==
    /\ pc = "idle"
    /\ request' = [method |-> "GET", route |-> route]
    /\ response' = [status_code |-> 200, body |-> HealthBody]
    /\ invoked' = <<>>
    /\ result' = None
    /\ exc' = None
    /\ stdout' = <<>>
    /\ UNCHANGED <<config, provider, pc, seen>>

-----------------------------------------------------------------------------
(* The provider: what bedrock_runtime.invoke_model can do, lines 57-62 *)

\* Content blocks of a reply.  Besides well-formed text and image blocks the
\* model has a non-text block carrying a "text" member, a text block whose
\* "text" is null, and an element that is not an object.
TextBlock(s) == Dict([type |-> Str("text"), text |-> Str(s)])
TextBlockNoText == Dict([type |-> Str("text")])
TextBlockNullText == Dict([type |-> Str("text"), text |-> JNull])
ImageBlock == Dict([type |-> Str("image"), source |-> Str("base64")])
ThinkingBlock == Dict([type |-> Str("thinking"), text |-> Str("T")])
NotABlock == Str("x")

Blocks ==
    {TextBlock("A"), TextBlock("B"), TextBlock(""), TextBlockNoText,
     TextBlockNullText, ImageBlock, ThinkingBlock, NotABlock}

BlockLists(longest) == UNION { [1..n -> Blocks] : n \in 0..longest }

\* JSON documents the provider may return.
Message(content) == Dict([role |-> Str("assistant"), content |-> content])
MessageNoContent == Dict([role |-> Str("assistant")])

JsonDocuments(longest) ==
    { Message(List(bs)) : bs \in BlockLists(longest) }
        \cup {Message(JNull), MessageNoContent, List(<<>>), JNumber, JNull}

\* The bytes of a reply: a JSON document, or text that is not JSON.
JsonText(doc) == [valid |-> TRUE, doc |-> doc]
NotJson == [valid |-> FALSE, text |-> "<html>Bad Gateway</html>"]

ReplyBodies(longest) == { JsonText(doc) : doc \in JsonDocuments(longest) } \cup {NotJson}

\* botocore.exceptions.ClientError: e.response is the parsed error reply.
ErrorCodes == {"ThrottlingException", "AccessDeniedException"}
ErrorMessages == {"Rate exceeded", "Not authorized"}

ErrorDicts ==
    { [Code |-> c, Message |-> m] : c \in ErrorCodes, m \in ErrorMessages }
        \cup { [Code |-> c] : c \in ErrorCodes }
        \cup { [Message |-> m] : m \in ErrorMessages }
        \cup { [Type |-> "Sender"] }

ClientError(resp) == [type |-> "ClientError", response |-> resp]

ClientErrors ==
    { ClientError([ResponseMetadata |-> "metadata", Error |-> err]) : err \in ErrorDicts }
        \cup { ClientError([ResponseMetadata |-> "metadata"]) }

\* botocore.exceptions.ReadTimeoutError, which is not a ClientError
ReadTimeoutError == PyError("ReadTimeoutError", "Read timeout on endpoint URL")

\* e.response.get("Error", {}), lines 84-85
ErrorOf(e) == Get(e.response, "Error", <<>>)

\* str(e) of a ClientError: botocore's MSG_TEMPLATE
ClientErrorStr(e) ==
    "An error occurred (" \o Get(ErrorOf(e), "Code", "Unknown")
        \o ") when calling the InvokeModel operation: "
        \o Get(ErrorOf(e), "Message", "Unknown")

HTTPException(status_code, detail) ==
    [type |-> "HTTPException", status_code |-> status_code, detail |-> detail]

\* str(e), used at lines 85, 92, 98, 101
PyStr(e) ==
    CASE e.type = "ClientError" -> ClientErrorStr(e)
      [] e.type = "HTTPException" ->
            (IF e.status_code = 500 THEN "500" ELSE "422") \o ": " \o e.detail
      [] OTHER -> e.msg

\* The provider's condition changes on its own; the program observes it only
\* in the call, so the changes between invocations are the ones that matter.
ProviderChanges ==
    /\ pc = "idle"
    /\ \E p \in ProviderStates \ {provider} : provider' = p
    /\ UNCHANGED <<config, pc, request, invoked, result, exc, stdout, response, seen>>

-----------------------------------------------------------------------------
(* Request validation: class GenerateRequest, lines 24-25, done by FastAPI *)

GenerateRoutes == {"/generate", "/prod/generate"}

Prompts == {"", "hi"}

\* JSON request bodies: a prompt string, no prompt, or a prompt that is no string.
RequestBodies ==
    { Dict([prompt |-> Str(p)]) : p \in Prompts }
        \cup {Dict([text |-> Str("hi")]), Dict([prompt |-> JNull]),
              Dict([prompt |-> List(<<>>)])}

\* Faulty variant: a missing prompt defaults to "" (prompt: str = "").
GenerateRequestDefaulted(body) ==
    IF "prompt" \notin DOMAIN body.d THEN Ok([prompt |-> ""])
    ELSE IF body.d.prompt.t # "string"
    THEN Raised([type |-> "RequestValidationError",
                 errors |-> <<[type |-> "string_type", loc |-> <<"body", "prompt">>,
                              msg |-> "Input should be a valid string"]>>])
    ELSE Ok([prompt |-> body.d.prompt.v])

\* GenerateRequest(**body): the model, or the errors of a RequestValidationError
GenerateRequest(body) ==
    IF "prompt" \notin DOMAIN body.d
    THEN Raised([type |-> "RequestValidationError",
                 errors |-> <<[type |-> "missing", loc |-> <<"body", "prompt">>,
                              msg |-> "Field required"]>>])
    ELSE IF body.d.prompt.t # "string"
    THEN Raised([type |-> "RequestValidationError",
                 errors |-> <<[type |-> "string_type", loc |-> <<"body", "prompt">>,
                              msg |-> "Input should be a valid string"]>>])
    ELSE Ok([prompt |-> body.d.prompt.v])

\* POST /generate and POST /prod/generate, lines 34-36: FastAPI builds the
\* GenerateRequest and answers 422 itself when it cannot; otherwise generate()
\* is entered.
PostGenerate(route, body) ==
    /\ pc = "idle"
    /\ invoked' = <<>>
    /\ result' = None
    /\ exc' = None
    /\ stdout' = <<>>
    /\ LET parsed == GenerateRequest(body) IN
        IF parsed.ok
        THEN /\ request' = [method |-> "POST", route |-> route, body |-> body,
                            model |-> parsed.value]
             /\ pc' = "call"
             /\ response' = None
        ELSE /\ request' = [method |-> "POST", route |-> route, body |-> body,
                            model |-> None]
             /\ pc' = "idle"
             /\ response' = [status_code |-> 422, body |-> [detail |-> parsed.exc.errors]]
    /\ UNCHANGED <<config, provider, seen>>

-----------------------------------------------------------------------------
(* generate(): lines 40-102 *)

\* json.dumps({...}), lines 42-54
RequestBody(prompt) ==
    [anthropic_version |-> "bedrock-2023-05-31",
     max_tokens |-> 4096,
     temperature |-> "0.7",
     messages |-> <<[role |-> "user", content |-> prompt]>>]

\* The arguments of bedrock_runtime.invoke_model, lines 57-62
InvokeArgs ==
    [client |-> bedrock_runtime,
     modelId |-> bedrock_model_id,
     body |-> RequestBody(request.model.prompt),
     contentType |-> "application/json",
     accept |-> "application/json"]

\* Lines 57-62: the call returns a reply, raises a ClientError, or times out.
\* result records what the call did: the reply returned, or the exception raised.
InvokeModel(replies) ==
    /\ pc = "call"
    /\ invoked' = Append(invoked, InvokeArgs)
    /\ \/ /\ provider = "available"
          /\ \E body \in replies : result' = [body |-> body]
          /\ pc' = "parse"
          /\ exc' = exc
       \/ /\ provider = "erroring"
          /\ \E e \in ClientErrors : exc' = e /\ result' = [raised |-> e]
          /\ pc' = "except"
       \/ /\ provider = "timing_out"
          /\ exc' = ReadTimeoutError
          /\ result' = [raised |-> ReadTimeoutError]
          /\ pc' = "except"
    /\ UNCHANGED <<config, provider, request, stdout, response, seen>>

\* json.loads(response["body"].read()), line 65
JsonLoads(body) ==
    IF body.valid
    THEN Ok(body.doc)
    ELSE Raised(PyError("JSONDecodeError", "Expecting value: line 1 column 1 (char 0)"))

\* text_content = "", line 69
InitialText == ""

\* content_block.get("type") == "text", line 72
IsTextBlock(content_block) == Get(content_block.d, "type", None) = Str("text")

\* Faulty variant: the block's text is put in front of the text collected so far.
AddTextPrepend(text_content, s) == s \o text_content

\* text_content += content_block.get("text", ""), line 73
AddText(text_content, s) == text_content \o s

\* The for loop of lines 71-73 from element i on.
RECURSIVE Loop(_, _, _)
Loop(items, i, text_content) ==
    IF i > Len(items) THEN Ok(text_content)
    ELSE LET content_block == items[i] IN
        IF content_block.t # "object"
        THEN Raised(PyError("AttributeError",
                "'" \o PyTypeName(content_block) \o "' object has no attribute 'get'"))
        ELSE IF IsTextBlock(content_block)
        THEN LET text == Get(content_block.d, "text", Str("")) IN
             IF text.t = "string"
             THEN Loop(items, i + 1, AddText(text_content, text.v))
             ELSE Raised(PyError("TypeError",
                    "can only concatenate str (not \"" \o PyTypeName(text) \o "\") to str"))
        ELSE Loop(items, i + 1, text_content)

\* for content_block in response_body["content"], line 71
Iterate(content) ==
    CASE content.t = "array" -> Loop(content.items, 1, InitialText)
      [] content.t = "string" ->
            IF content.v = "" THEN Ok(InitialText)
            ELSE Raised(PyError("AttributeError", "'str' object has no attribute 'get'"))
      [] content.t = "object" ->
            Raised(PyError("AttributeError", "'str' object has no attribute 'get'"))
      [] OTHER ->
            Raised(PyError("TypeError",
                "'" \o PyTypeName(content) \o "' object is not iterable"))

\* Faulty variant: response_body["content"] without the membership test.
ExtractTextNoKeyCheck(response_body) ==
    CASE response_body.t = "object" ->
            IF "content" \in DOMAIN response_body.d
            THEN Iterate(response_body.d.content)
            ELSE Raised(PyError("KeyError", "'content'"))
      [] response_body.t = "array" ->
            Raised(PyError("TypeError", "list indices must be integers or slices, not str"))
      [] response_body.t = "string" ->
            Raised(PyError("TypeError", "string indices must be integers, not 'str'"))
      [] OTHER ->
            Raised(PyError("TypeError",
                "'" \o PyTypeName(response_body) \o "' object is not subscriptable"))

\* Lines 69-73: "content" in response_body, then the loop.
ExtractText(response_body) ==
    CASE response_body.t = "object" ->
            IF "content" \in DOMAIN response_body.d
            THEN Iterate(response_body.d.content)
            ELSE Ok(InitialText)
      [] response_body.t = "array" ->
            IF \E i \in 1..Len(response_body.items) : response_body.items[i] = Str("content")
            THEN Raised(PyError("TypeError",
                    "list indices must be integers or slices, not str"))
            ELSE Ok(InitialText)
      [] response_body.t = "string" -> Ok(InitialText)
      [] OTHER ->
            Raised(PyError("TypeError",
                "argument of type '" \o PyTypeName(response_body) \o "' is not iterable"))

\* Faulty variant: the emptiness test is missing.
FalsyNever(text_content) == FALSE

\* Faulty variant: only the /generate route tests for emptiness.
FalsyOnPlainRoute(text_content) == request.route = "/generate" /\ text_content = ""

\* not text_content, line 75
Falsy(text_content) == text_content = ""

\* Lines 64-81: the value returned, or the exception raised inside the try.
ParseAndExtract(body) ==
    LET loaded == JsonLoads(body) IN
    IF ~loaded.ok THEN loaded
    ELSE LET extracted == ExtractText(loaded.value) IN
         IF ~extracted.ok THEN extracted
         ELSE IF Falsy(extracted.value)
         THEN Raised(HTTPException(500, "No text content in Bedrock response"))
         ELSE Ok([text |-> extracted.value])

\* Lines 64-81 as a step: return {"text": text_content}, or raise.
ParseResponse ==
    /\ pc = "parse"
    /\ LET r == ParseAndExtract(result.body) IN
        IF r.ok
        THEN /\ response' = [status_code |-> 200, body |-> r.value]
             /\ pc' = "idle"
             /\ exc' = exc
        ELSE /\ exc' = r.exc
             /\ pc' = "except"
             /\ response' = response
    /\ UNCHANGED <<config, provider, request, invoked, result, stdout, seen>>

\* Faulty variant: the provider's code is not looked up.
error_code_unknown(e) == "Unknown"

\* Lines 84-85
error_code(e) == Get(ErrorOf(e), "Code", "Unknown")
error_message(e) == Get(ErrorOf(e), "Message", PyStr(e))

\* Faulty variant: a throttled call is tried again.
ExceptClientErrorRetry ==
    /\ pc = "except"
    /\ exc.type = "ClientError"
    /\ stdout' = Append(stdout,
            "Bedrock ClientError: " \o error_code(exc) \o " - " \o error_message(exc))
    /\ IF error_code(exc) = "ThrottlingException"
       THEN /\ pc' = "call"
            /\ exc' = None
       ELSE /\ pc' = "raise"
            /\ exc' = HTTPException(500,
                    "Bedrock invocation failed: " \o error_code(exc) \o " - "
                        \o error_message(exc))
    /\ UNCHANGED <<config, provider, request, invoked, result, response, seen>>

\* except ClientError, lines 83-90: print, then raise the HTTPException
ExceptClientError ==
    /\ pc = "except"
    /\ exc.type = "ClientError"
    /\ stdout' = Append(stdout,
            "Bedrock ClientError: " \o error_code(exc) \o " - " \o error_message(exc))
    /\ exc' = HTTPException(500,
            "Bedrock invocation failed: " \o error_code(exc) \o " - " \o error_message(exc))
    /\ pc' = "raise"
    /\ UNCHANGED <<config, provider, request, invoked, result, response, seen>>

\* Faulty variant: the parse failure is not printed.
ExceptJSONDecodeErrorSilent ==
    /\ pc = "except"
    /\ exc.type = "JSONDecodeError"
    /\ exc' = HTTPException(500, "Failed to parse Bedrock response")
    /\ pc' = "raise"
    /\ UNCHANGED <<config, provider, request, invoked, result, stdout, response, seen>>

\* except json.JSONDecodeError, lines 91-96
ExceptJSONDecodeError ==
    /\ pc = "except"
    /\ exc.type = "JSONDecodeError"
    /\ stdout' = Append(stdout, "JSON decode error: " \o PyStr(exc))
    /\ exc' = HTTPException(500, "Failed to parse Bedrock response")
    /\ pc' = "raise"
    /\ UNCHANGED <<config, provider, request, invoked, result, response, seen>>

\* except Exception, lines 97-102: every other exception raised inside the try,
\* the HTTPException of line 76 included
ExceptException ==
    /\ pc = "except"
    /\ exc.type \notin {"ClientError", "JSONDecodeError"}
    /\ stdout' = Append(stdout, "Unexpected error in generate: " \o PyStr(exc))
    /\ exc' = HTTPException(500, "Generation failed: " \o PyStr(exc))
    /\ pc' = "raise"
    /\ UNCHANGED <<config, provider, request, invoked, result, response, seen>>

\* The HTTPException leaves generate(); FastAPI answers with its status and detail.
RaiseHTTPException ==
    /\ pc = "raise"
    /\ response' = [status_code |-> exc.status_code, body |-> [detail |-> exc.detail]]
    /\ pc' = "idle"
    /\ UNCHANGED <<config, provider, request, invoked, result, exc, stdout, seen>>

-----------------------------------------------------------------------------
(* History: one finished /generate invocation, any of them, is kept for     *)
(* comparison with the later ones.                                          *)

Finished == pc = "idle" /\ response # None

Remember ==
    /\ Finished
    /\ request.method = "POST"
    /\ seen = None
    /\ seen' = [route |-> request.route, body |-> request.body, result |-> result,
                response |-> response]
    /\ UNCHANGED <<config, provider, pc, request, invoked, result, exc, stdout, response>>

-----------------------------------------------------------------------------
Step(replies) ==
    \/ \E route \in GenerateRoutes, body \in RequestBodies : PostGenerate(route, body)
    \/ InvokeModel(replies)
    \/ ParseResponse
    \/ ExceptClientError
    \/ ExceptJSONDecodeError
    \/ ExceptException
    \/ RaiseHTTPException
    \/ ProviderChanges
    \/ \E route \in HealthRoutes : health(route)

Next == Step(ReplyBodies(MaxBlocks))
NextEnv == Step(ReplyBodies(MaxBlocksSmall))
NextPair == Step(ReplyBodies(MaxBlocksSmall)) \/ Remember

\* One instance, started without or with its two variables set.
Spec == Init /\ [][Next]_vars

\* Every environment, short replies.
SpecEnv == InitEnv /\ [][NextEnv]_vars

\* Two invocations of an instance started with nothing set compared, short replies.
SpecPair == InitPair /\ [][NextPair]_vars

-----------------------------------------------------------------------------
(* Properties.  The expected values are restated from the HTTP contract,   *)
(* independently of the handler's own operators.                           *)

IsGenerate == request # None /\ request.method = "POST"
IsHealth == request # None /\ request.method = "GET"

\* The request body carries a prompt that is a string.
HasTextPrompt == "prompt" \in DOMAIN request.body.d /\ request.body.d.prompt.t = "string"

\* invoke_model returned a reply that parses as JSON.
GotJson == "body" \in DOMAIN result /\ result.body.valid
Doc == result.body.doc

\* The reply is an object whose "content" is a list.
HasContentList(doc) ==
    doc.t = "object" /\ "content" \in DOMAIN doc.d /\ doc.d.content.t = "array"

IsTextTyped(b) == b.t = "object" /\ "type" \in DOMAIN b.d /\ b.d.type = Str("text")

\* The "text" value of a text block, "" when it has none.
TextValue(b) ==
    IF "text" \in DOMAIN b.d /\ b.d.text.t = "string" THEN b.d.text.v ELSE ""

RECURSIVE Concatenation(_)
Concatenation(blocks) ==
    IF Len(blocks) = 0 THEN ""
    ELSE TextValue(Head(blocks)) \o Concatenation(Tail(blocks))

\* T of the contract: the texts of the blocks typed "text", in list order.
ExpectedText(doc) == Concatenation(SelectSeq(doc.d.content.items, IsTextTyped))

\* Every element is an object, and a text block's "text", when present, is a string.
WellFormedBlocks(doc) ==
    \A i \in 1..Len(doc.d.content.items) :
        LET b == doc.d.content.items[i] IN
        /\ b.t = "object"
        /\ (IsTextTyped(b) /\ "text" \in DOMAIN b.d) => b.d.text.t = "string"

\* C1: a successful POST /generate answers 200 with {"text": T}, T being the
\* concatenation in list order of the "text" of exactly the blocks typed "text";
\* and a reply of well-formed blocks with a non-empty T does succeed.
C1_TextIsConcatenation ==
    (Finished /\ IsGenerate /\ GotJson /\ HasContentList(Doc)) =>
        /\ response.status_code = 200 => response.body = [text |-> ExpectedText(Doc)]
        /\ (WellFormedBlocks(Doc) /\ ExpectedText(Doc) # "") => response.status_code = 200

C1_Witness ==
    /\ Finished /\ IsGenerate /\ GotJson
    /\ Doc = Message(List(<<TextBlock("A"), ImageBlock, TextBlock("B")>>))
    /\ response = [status_code |-> 200, body |-> [text |-> "AB"]]

\* The reply has no "content" member, or a content list without a text block
\* of non-empty text.
NoTextInReply(doc) ==
    \/ ~(doc.t = "object" /\ "content" \in DOMAIN doc.d)
    \/ /\ HasContentList(doc)
       /\ \A i \in 1..Len(doc.d.content.items) :
            LET b == doc.d.content.items[i] IN ~(IsTextTyped(b) /\ TextValue(b) # "")

\* The same, for the replies the extraction walks through without a Python
\* error: an object without "content", or with a list of well-formed blocks.
NoTextInWellFormedReply(doc) ==
    \/ doc.t = "object" /\ "content" \notin DOMAIN doc.d
    \/ HasContentList(doc) /\ WellFormedBlocks(doc) /\ ExpectedText(doc) = ""

NoTextDetail == "Generation failed: 500: No text content in Bedrock response"

\* C2, as amended: a JSON reply without text is never answered 200 but 500; for
\* an object without "content" and for an object whose content is a list of
\* well-formed blocks the detail is the fixed NoTextDetail.
C2_NoTextIs500 ==
    (Finished /\ IsGenerate /\ GotJson) =>
        /\ NoTextInReply(Doc) => response.status_code = 500
        /\ NoTextInWellFormedReply(Doc) =>
                response = [status_code |-> 500, body |-> [detail |-> NoTextDetail]]

C2_Witness ==
    /\ Finished /\ IsGenerate /\ GotJson
    /\ Doc = Message(List(<<TextBlock(""), ImageBlock>>))
    /\ response = [status_code |-> 500, body |-> [detail |-> NoTextDetail]]

\* C2 as stated: every JSON reply without text is answered 500 with one fixed
\* detail saying that no text content was produced.
C2_Original ==
    (Finished /\ IsGenerate /\ GotJson /\ NoTextInReply(Doc)) =>
        /\ response.status_code = 500
        /\ response.body.detail \in {NoTextDetail, "No text content in Bedrock response"}

\* C3: a ClientError with code C and message M is answered 500 with a detail
\* holding C and M; without a code the detail holds "Unknown" in its place.
C3_ClientErrorDetail ==
    (Finished /\ IsGenerate /\ "raised" \in DOMAIN result
        /\ result.raised.type = "ClientError") =>
        LET r == result.raised.response
            err == IF "Error" \in DOMAIN r THEN r.Error ELSE [Type |-> "none"]
        IN
        /\ response.status_code = 500
        /\ ("Code" \in DOMAIN err /\ "Message" \in DOMAIN err) =>
                response.body.detail =
                    "Bedrock invocation failed: " \o err.Code \o " - " \o err.Message
        /\ ("Code" \notin DOMAIN err /\ "Message" \in DOMAIN err) =>
                response.body.detail = "Bedrock invocation failed: Unknown - " \o err.Message
        /\ ("Code" \notin DOMAIN err /\ "Message" \notin DOMAIN err) =>
                response.body.detail =
                    "Bedrock invocation failed: Unknown - An error occurred (Unknown) when calling the InvokeModel operation: Unknown"

C3_Witness ==
    /\ Finished /\ IsGenerate
    /\ result = [raised |-> ClientError([ResponseMetadata |-> "metadata",
                    Error |-> [Code |-> "ThrottlingException", Message |-> "Rate exceeded"]])]
    /\ response = [status_code |-> 500, body |->
            [detail |-> "Bedrock invocation failed: ThrottlingException - Rate exceeded"]]

\* C4: a POST /generate whose body has no prompt, or a prompt that is not a
\* string, ends at once in a 422, and invoke_model is not called for it.
C4_InvalidBodyIs422 ==
    (IsGenerate /\ ~HasTextPrompt) =>
        /\ pc = "idle"
        /\ response.status_code = 422
        /\ invoked = <<>>

C4_Witness ==
    /\ IsGenerate
    /\ request.body = Dict([text |-> Str("hi")])
    /\ response.status_code = 422
    /\ invoked = <<>>

\* C5: for a valid POST /generate invoke_model is called exactly once: not yet
\* while the call is pending, and once from then on, whatever the outcome.
C5_InvokedOnce ==
    (IsGenerate /\ HasTextPrompt) =>
        IF pc = "call" THEN Len(invoked) = 0 ELSE Len(invoked) = 1

C5_Witness ==
    /\ Finished /\ IsGenerate /\ HasTextPrompt
    /\ "raised" \in DOMAIN result
    /\ response.status_code = 500
    /\ Len(invoked) = 1

\* C6, as amended: every 500 of /generate is preceded by a printed line (the
\* line is there when the HTTPException is raised and when the response is
\* given); a 422 is given by the framework and nothing is printed for it.
C6_Every500IsLogged ==
    IsGenerate =>
        /\ pc = "raise" => Len(stdout) = 1
        /\ (Finished /\ response.status_code = 500) => Len(stdout) = 1
        /\ (Finished /\ response.status_code = 422) => Len(stdout) = 0

C6_Witness ==
    /\ Finished /\ IsGenerate
    /\ response.status_code = 500
    /\ stdout = <<"Unexpected error in generate: 500: No text content in Bedrock response">>

\* C6 as stated: no error response of /generate, a validation failure
\* included, is given without a printed line before it.
C6_Original ==
    (Finished /\ IsGenerate /\ response.status_code # 200) => Len(stdout) >= 1

\* C7: a 200 of /generate carries a non-empty text, and a reply whose text is
\* absent or empty is answered with an error, never with a 200.
C7_AllOrNothing ==
    (Finished /\ IsGenerate) =>
        /\ response.status_code \in {200, 422, 500}
        /\ response.status_code = 200 =>
                /\ DOMAIN response.body = {"text"}
                /\ response.body.text # ""
        /\ response.status_code # 200 => DOMAIN response.body = {"detail"}
        /\ (GotJson /\ NoTextInReply(Doc)) => response.status_code # 200

C7_Witness ==
    /\ Finished /\ IsGenerate /\ GotJson
    /\ Doc = Message(List(<<TextBlock("")>>))
    /\ response.status_code = 500

\* C8: a health request is answered {"status": "ok"} with 200 whatever the
\* provider's condition and whatever came before, and calls nothing.
C8_HealthAlwaysOk ==
    IsHealth =>
        /\ pc = "idle"
        /\ response = [status_code |-> 200, body |-> [status |-> "ok"]]
        /\ invoked = <<>>

C8_Witness ==
    /\ IsHealth
    /\ request.route = "/prod/health"
    /\ provider = "timing_out"
    /\ response = [status_code |-> 200, body |-> [status |-> "ok"]]

\* The value of an environment variable, or a default.
Configured(name, default) == IF env[name] = Unset THEN default ELSE env[name]

\* C9, as amended: the client's region is BEDROCK_REGION, or "us-east-1" when
\* unset, and the model identifier of every call is BEDROCK_MODEL_ID, or the
\* Claude 3.5 Sonnet string when unset.
C9_ConfigFromBedrockVariables ==
    /\ bedrock_runtime.region_name = Configured("BEDROCK_REGION", "us-east-1")
    /\ \A i \in 1..Len(invoked) :
        /\ invoked[i].client.region_name = Configured("BEDROCK_REGION", "us-east-1")
        /\ invoked[i].modelId =
            Configured("BEDROCK_MODEL_ID", "anthropic.claude-3-5-sonnet-20240620-v1:0")

C9_Witness ==
    /\ Len(invoked) = 1
    /\ env["BEDROCK_MODEL_ID"] = "anthropic.claude-3-haiku-20240307-v1:0"
    /\ env["BEDROCK_REGION"] = Unset
    /\ invoked[1].modelId = "anthropic.claude-3-haiku-20240307-v1:0"
    /\ invoked[1].client.region_name = "us-east-1"

\* C9 as stated: the region and the model identifier follow MODEL_REGION and
\* MODEL_ID.
C9_Original ==
    /\ bedrock_runtime.region_name = Configured("MODEL_REGION", "us-east-1")
    /\ \A i \in 1..Len(invoked) :
        invoked[i].modelId =
            Configured("MODEL_ID", "anthropic.claude-3-5-sonnet-20240620-v1:0")

\* C10: a finished /generate invocation with the body and the provider outcome
\* of an earlier one has its response, on either route; and the client, region
\* and model identifier are those of the start.
C10_SameInputSameOutput ==
    /\ (Finished /\ IsGenerate /\ seen # None
            /\ seen.body = request.body /\ seen.result = result) =>
        seen.response = response
    /\ bedrock_region = Configured("BEDROCK_REGION", "us-east-1")
    /\ bedrock_model_id =
            Configured("BEDROCK_MODEL_ID", "anthropic.claude-3-5-sonnet-20240620-v1:0")
    /\ bedrock_runtime = [service |-> "bedrock-runtime", region_name |-> bedrock_region]

C10_Witness ==
    /\ Finished /\ IsGenerate /\ seen # None
    /\ seen.route = "/generate"
    /\ request.route = "/prod/generate"
    /\ seen.body = request.body /\ seen.result = result
    /\ GotJson /\ Doc = Message(List(<<TextBlock("A")>>))
    /\ seen.response = [status_code |-> 200, body |-> [text |-> "A"]]
====
